---- MODULE Spec2Model ----
(***************************************************************************)
(* Model of the homework-grading batch run: homework_grader.py (the main   *)
(* script), utils.py (mail source, extraction), rate_to_question.py (the   *)
(* grading client) and mongo_db.py (the sink).                             *)
(*                                                                         *)
(* Python strings on which the code does character work (From header,      *)
(* Content-Disposition header, filenames, grading reply) are sequences of  *)
(* one-character strings.  Strings the code only passes around or compares *)
(* as a whole (subject, date) are TLA+ strings.                            *)
(***************************************************************************)
EXTENDS Naturals, Integers, Sequences, FiniteSets, TLC

VARIABLES
    configOK,      \* config.json is readable and has a 'prompt' key
    questionEnv,   \* "unset" | "nocolumns" | "ok": QUESTION_FILE_PATH and its CSV
    rosterOK,      \* the roster CSV has an 'email_address' column
    pc,            \* position of the main script
    err,           \* name of the uncaught exception, "none" if there is none
    connected,     \* an IMAP4_SSL connection to the mailbox host was opened
    loggedIn,      \* mail.login succeeded
    genStarted,    \* get_filtered_emails ran up to its for loop
    mail_ids,      \* the ids the SEARCH returned, oldest first
    idx,           \* position in reversed(mail_ids) of the id being handled
    cur,           \* <<mail_id, mail_body>> yielded by get_filtered_emails
    mail_info,     \* the record yielded by extract_mail_info
    mails_info,    \* the list built by the main loop
    session,       \* session read by fetch_question
    backendCalls,  \* mail ids for which the chat completion was requested
    backendFailed, \* mail ids for which the chat completion raised
    sinkCalls,     \* number of insert_many calls
    sinkArg,       \* the list insert_many was called with
    sinkError,     \* insert_many raised (and was caught)
    fetched,       \* history: mail ids a FETCH was issued for
    closed,        \* history: mail ids whose handling is over
    yielded,       \* history: mail ids extract_mail_info yielded a record for
    threadIds,     \* history: fetched ids whose message has a reply header
    foreignIds,    \* history: fetched ids whose sender is not on the roster
    noDateIds,     \* history: fetched ids whose Date is absent or unparseable
    fn_in,         \* input of the function under test (unit specifications)
    fn_out         \* its result

vars == <<configOK, questionEnv, rosterOK, pc, err, connected, loggedIn,
          genStarted, mail_ids, idx, cur, mail_info, mails_info, session,
          backendCalls, backendFailed, sinkCalls, sinkArg, sinkError,
          fetched, closed, yielded, threadIds, foreignIds, noDateIds,
          fn_in, fn_out>>

pipeVars == <<configOK, questionEnv, rosterOK, pc, err, connected, loggedIn,
          genStarted, mail_ids, idx, cur, mail_info, mails_info, session,
          backendCalls, backendFailed, sinkCalls, sinkArg, sinkError,
          fetched, closed, yielded, threadIds, foreignIds, noDateIds>>

(***************************************************************************)
(* Bounds.                                                                 *)
(***************************************************************************)
MaxMail == 2       \* messages in the inbox
MaxParts == 3      \* MIME parts of a message (unit specification)
MaxReplyLen == 5   \* characters of a grading reply (unit specification)

(***************************************************************************)
(* Python string primitives on character sequences.                        *)
(***************************************************************************)
Contains(s, c) == \E i \in 1..Len(s) : s[i] = c

FirstIndex(s, c) ==
    IF Contains(s, c) THEN CHOOSE i \in 1..Len(s) :
                               s[i] = c /\ \A j \in 1..(i - 1) : s[j] # c
    ELSE 0

\* str.split(sep) for a one-character separator: always at least one piece
RECURSIVE Split(_, _)
Split(s, c) ==
    LET i == FirstIndex(s, c)
    IN  IF i = 0 THEN <<s>>
        ELSE <<SubSeq(s, 1, i - 1)>> \o Split(SubSeq(s, i + 1, Len(s)), c)

Whitespace == {" ", "\n", "\t"}

\* str.strip()
RECURSIVE Strip(_)
Strip(s) ==
    IF s = <<>> THEN s
    ELSE IF s[1] \in Whitespace THEN Strip(Tail(s))
    ELSE IF s[Len(s)] \in Whitespace THEN Strip(SubSeq(s, 1, Len(s) - 1))
    ELSE s

UpperToLower ==
    [c \in {"A", "C", "E", "H", "M", "N", "P", "T", "Y"} |->
        CASE c = "A" -> "a" [] c = "C" -> "c" [] c = "E" -> "e"
          [] c = "H" -> "h" [] c = "M" -> "m" [] c = "N" -> "n"
          [] c = "P" -> "p" [] c = "T" -> "t" [] c = "Y" -> "y"]

\* str.lower()
Lower(s) ==
    [i \in 1..Len(s) |->
        IF s[i] \in DOMAIN UpperToLower THEN UpperToLower[s[i]] ELSE s[i]]

\* needle in s
IsSubstring(needle, s) ==
    \E i \in 0..(Len(s) - Len(needle)) :
        SubSeq(s, i + 1, i + Len(needle)) = needle

\* s.endswith(suffix)
EndsWith(s, suffix) ==
    /\ Len(s) >= Len(suffix)
    /\ SubSeq(s, Len(s) - Len(suffix) + 1, Len(s)) = suffix

\* sep.join(list)
RECURSIVE Join(_, _)
Join(sep, list) ==
    IF list = <<>> THEN <<>>
    ELSE IF Len(list) = 1 THEN list[1]
    ELSE list[1] \o sep \o Join(sep, Tail(list))

\* reversed(list)
Reversed(list) == [i \in 1..Len(list) |-> list[Len(list) + 1 - i]]

\* all sequences over S of length at most n
SeqUpTo(S, n) == UNION {[1..k -> S] : k \in 0..n}

(***************************************************************************)
(* Python values.                                                          *)
(***************************************************************************)
NoneV == [some |-> FALSE]
Some(v) == [some |-> TRUE, val |-> v]

\* Message.get(name, default) on a header that is absent or has a value
GetD(h, default) == IF h.some THEN h.val ELSE default

\* truth value of a header fetched with Message.get(name): None and ""
\* are false
Truthy(h) == h.some /\ h.val # ""

Raised(name) == [ok |-> FALSE, err |-> name]
Returned(v) == [ok |-> TRUE, val |-> v]

(***************************************************************************)
(* get_filtered_emails: the sender test.                                   *)
(***************************************************************************)
\* the roster's email_address column
Roster == {<<"a">>}

\* a variant that keeps what precedes the bracket
SenderEmail_display(from_) ==
    IF Contains(from_, "<") /\ Contains(from_, ">")
    THEN Split(Split(from_, "<")[1], ">")[1]
    ELSE from_

SenderEmail(from_) ==
    IF Contains(from_, "<") /\ Contains(from_, ">")
    THEN Split(Split(from_, "<")[2], ">")[1]
    ELSE from_

SenderAllowed(mail_body, emails) ==
    Strip(SenderEmail(GetD(mail_body.From, <<>>))) \in emails

\* email.utils.parseaddr, on the header shapes the model draws
ParseAddr(from_) ==
    IF Contains(from_, "<") /\ Contains(from_, ">")
          /\ FirstIndex(from_, "<") < FirstIndex(from_, ">")
    THEN [name |-> Strip(SubSeq(from_, 1, FirstIndex(from_, "<") - 1)),
          addr |-> Strip(SubSeq(from_, FirstIndex(from_, "<") + 1,
                                FirstIndex(from_, ">") - 1))]
    ELSE [name |-> <<>>, addr |-> Strip(from_)]

(***************************************************************************)
(* count_py_attachments and get_all_mail_py_attached_content.              *)
(* A part is [disp, fname, payload]: the disposition type and the filename *)
(* parameter of its Content-Disposition header, and the payload bytes.     *)
(***************************************************************************)
ATTACHMENT == <<"a", "t", "t", "a", "c", "h", "m", "e", "n", "t">>
DOT_PY == <<".", "p", "y">>
FILENAME_PARAM == <<";", " ", "f", "i", "l", "e", "n", "a", "m", "e", "=", "\"">>
FILE_MARK_HEAD == <<"#", " ", "=", "=", "=", " ", "F", "i", "l", "e", ":", " ">>
FILE_MARK_TAIL == <<" ", "=", "=", "=", "\n">>
BLANK_LINE == <<"\n", "\n">>

\* the value of the part's Content-Disposition header as the parser returns
\* it: the disposition type followed by the filename parameter
ContentDisposition(part) ==
    IF ~part.disp.some THEN NoneV
    ELSE Some(part.disp.val \o
              (IF part.fname.some
               THEN FILENAME_PARAM \o part.fname.val \o <<"\"">>
               ELSE <<>>))

\* Message.get_filename()
GetFilename(part) == part.fname

\* a variant that compares the extension as it is written
IsPyAttachment_cased(part) ==
    /\ IsSubstring(ATTACHMENT, Lower(GetD(ContentDisposition(part), <<>>)))
    /\ GetFilename(part).some
    /\ GetFilename(part).val # <<>>
    /\ EndsWith(GetFilename(part).val, DOT_PY)

\* the test both walks apply to a part
IsPyAttachment(part) ==
    /\ IsSubstring(ATTACHMENT, Lower(GetD(ContentDisposition(part), <<>>)))
    /\ GetFilename(part).some
    /\ GetFilename(part).val # <<>>
    /\ EndsWith(Lower(GetFilename(part).val), DOT_PY)

RECURSIVE CountPyAttachments(_)
CountPyAttachments(parts) ==
    IF parts = <<>> THEN 0
    ELSE (IF IsPyAttachment(parts[1]) THEN 1 ELSE 0)
         + CountPyAttachments(Tail(parts))

\* bytes.decode('utf-8') with the latin1 fallback: the byte "\xff" is not
\* valid UTF-8 and is the character "y:" in latin1
DecodePayload(file_data) ==
    IF Contains(file_data, "\\xff")
    THEN [i \in 1..Len(file_data) |->
             IF file_data[i] = "\\xff" THEN "y:" ELSE file_data[i]]
    ELSE file_data

FileBlock(part) ==
    FILE_MARK_HEAD \o GetFilename(part).val \o FILE_MARK_TAIL
        \o Strip(DecodePayload(part.payload))

RECURSIVE PyContents(_)
PyContents(parts) ==
    IF parts = <<>> THEN <<>>
    ELSE (IF IsPyAttachment(parts[1]) THEN <<FileBlock(parts[1])>> ELSE <<>>)
         \o PyContents(Tail(parts))

GetAllMailPyAttachedContent(parts) == Join(BLANK_LINE, PyContents(parts))

(***************************************************************************)
(* The grade expression of the main loop.                                  *)
(***************************************************************************)
Digits == {"0", "1", "2", "3", "4", "5", "6", "7", "8", "9"}

DigitVal(c) ==
    CASE c = "0" -> 0 [] c = "1" -> 1 [] c = "2" -> 2 [] c = "3" -> 3
      [] c = "4" -> 4 [] c = "5" -> 5 [] c = "6" -> 6 [] c = "7" -> 7
      [] c = "8" -> 8 [] c = "9" -> 9

RECURSIVE DigitsVal(_)
DigitsVal(s) ==
    IF s = <<>> THEN 0
    ELSE 10 * DigitsVal(SubSeq(s, 1, Len(s) - 1)) + DigitVal(s[Len(s)])

\* a decimal number as mantissa and count of fractional digits, without
\* trailing fractional zeros: 8.5 is [mant |-> 85, scale |-> 1]
RECURSIVE Normal(_, _)
Normal(mant, scale) ==
    IF scale > 0 /\ mant % 10 = 0 THEN Normal(mant \div 10, scale - 1)
    ELSE [mant |-> mant, scale |-> scale]

\* float(text) on text made of digits, ".", whitespace and other
\* characters: surrounding whitespace is dropped; digits with at most one
\* "." and at least one digit are a number; anything else is a ValueError
Float(text) ==
    LET s == Strip(text)
        noDot == SelectSeq(s, LAMBDA c : c # ".")
        dot == FirstIndex(s, ".")
    IN  IF /\ noDot # <<>>
           /\ \A i \in 1..Len(noDot) : noDot[i] \in Digits
           /\ Len(s) - Len(noDot) <= 1
        THEN Returned(Normal(DigitsVal(noDot),
                             IF dot = 0 THEN 0 ELSE Len(s) - dot))
        ELSE Raised("ValueError")

\* float(ai_answer.split('<')[1].split('>')[0].split(':')[1])
ParseGrade(ai_answer) ==
    LET a == Split(ai_answer, "<")
    IN  IF Len(a) < 2 THEN Raised("IndexError")
        ELSE LET c == Split(Split(a[2], ">")[1], ":")
             IN  IF Len(c) < 2 THEN Raised("IndexError")
                 ELSE Float(c[2])

(***************************************************************************)
(* extract_mail_info: date, subject and the record.                        *)
(***************************************************************************)
VALID_DATE == "Mon, 01 Jan 2024 10:20:30 +0000"

\* email.utils.parsedate_to_datetime, then .date() and .time(): the model
\* draws one well-formed Date header; every other text is a ValueError
ParseDate(text) ==
    IF text = VALID_DATE
    THEN Returned([date |-> [type |-> "date", v |-> "2024-01-01"],
                   time |-> [type |-> "time", v |-> "10:20:30"]])
    ELSE Raised("ValueError")

\* the empty string the except branch assigns to both variables
EMPTY_STR == [type |-> "str", v |-> ""]

\* the try/except around the two parsedate_to_datetime calls
DateAndTime(mail_body) ==
    LET parsed == ParseDate(GetD(mail_body.Date, ""))
    IN  IF parsed.ok THEN parsed.val
        ELSE [date |-> EMPTY_STR, time |-> EMPTY_STR]

\* email_time.strftime('%H:%M:%S'): a str has no strftime
Strftime(email_time) ==
    IF email_time.type = "time" THEN Returned(email_time.v)
    ELSE Raised("AttributeError")

\* jdatetime.date.fromgregorian(date=email_date).isoformat()
JalaliIso(email_date) ==
    IF email_date.type = "date" /\ email_date.v = "2024-01-01"
    THEN Returned("1402-10-11")
    ELSE Raised("AttributeError")

ENCODED_HW1 == "=?utf-8?b?aHcx?="

\* decode_header(subject_raw)[0], bytes decoded with the stated charset
DecodeSubject(subject_raw) ==
    IF subject_raw = ENCODED_HW1 THEN "hw1" ELSE subject_raw

\* a variant that tests the In-Reply-To header only
IsReplyOrForward_one(mail_body) == Truthy(mail_body.InReplyTo)

\* mail_body.get('In-Reply-To') or mail_body.get('References')
IsReplyOrForward(mail_body) ==
    Truthy(mail_body.InReplyTo) \/ Truthy(mail_body.References)

\* the dictionary built at the end of the loop body; mail ids are kept as
\* the numbers the SEARCH returned
MailInfo(mail_id, mail_body, email_time, email_date) ==
    [mail_id |-> mail_id,
     mail_sender |-> ParseAddr(GetD(mail_body.From, <<>>)).name,
     mail_address |-> ParseAddr(GetD(mail_body.From, <<>>)).addr,
     mail_time |-> email_time,
     mail_date |-> email_date,
     mail_subject |-> DecodeSubject(GetD(mail_body.Subject, "")),
     py_content |-> GetAllMailPyAttachedContent(mail_body.parts),
     py_files |-> CountPyAttachments(mail_body.parts)]

(***************************************************************************)
(* The messages a FETCH can return.                                        *)
(***************************************************************************)
FromHeaders ==
    {NoneV, Some(<<"a">>), Some(<<" ", "a", " ">>),
     Some(<<"N", " ", "<", "a", ">">>), Some(<<"a", "<", "b", ">">>),
     Some(<<"b", " ", "<", " ", "a", ">">>), Some(<<">", "a", "<", "b">>),
     Some(<<"<", "a">>), Some(<<"b">>)}

InReplyToHeaders == {NoneV, Some(""), Some("<m1>")}
ReferencesHeaders == {NoneV, Some("<m0>")}
DateHeaders == {NoneV, Some("garbage"), Some(VALID_DATE)}
SubjectHeaders == {Some("hw1"), Some("other"), Some(ENCODED_HW1)}

Part(disp, fname, payload) ==
    [disp |-> disp, fname |-> fname, payload |-> payload]

A_PY == <<"a", ".", "p", "y">>
B_TXT == <<"b", ".", "t", "x", "t">>
C_PY_UPPER == <<"c", ".", "P", "Y">>
ATTACHMENT_PY == ATTACHMENT \o DOT_PY
INLINE == <<"i", "n", "l", "i", "n", "e">>
ATTACHMENT_CAP == <<"A">> \o Tail(ATTACHMENT)

\* the payload of a part is fixed by its filename: a.py has surrounding
\* whitespace, c.PY is not valid UTF-8
PayloadOf(fname) ==
    IF fname = Some(A_PY) THEN <<" ", "p", "\n">>
    ELSE IF fname = Some(C_PY_UPPER) THEN <<"\\xff">>
    ELSE <<"q">>

BodyPart == Part(NoneV, NoneV, <<"t">>)

PartLists ==
    {<<BodyPart>>,
     <<BodyPart, Part(Some(ATTACHMENT), Some(A_PY), PayloadOf(Some(A_PY)))>>,
     <<Part(Some(ATTACHMENT), Some(A_PY), PayloadOf(Some(A_PY))),
       Part(Some(INLINE), Some(B_TXT), PayloadOf(Some(B_TXT))),
       Part(Some(ATTACHMENT_CAP), Some(C_PY_UPPER), PayloadOf(Some(C_PY_UPPER)))>>}

Messages ==
    [From : FromHeaders, InReplyTo : InReplyToHeaders,
     References : ReferencesHeaders, Date : DateHeaders,
     Subject : SubjectHeaders, parts : PartLists]

\* what the chat completion call does: it raises, or returns a content
BackendOutcomes ==
    {Raised("APIError"),
     Returned(<<" ", "<", "g", ":", "8", ".", "5", ">", "\n">>),
     Returned(<<"g">>)}

SESSION == "hw1"

(***************************************************************************)
(* The run: homework_grader.py.                                            *)
(***************************************************************************)
Init ==
    /\ configOK \in BOOLEAN
    /\ questionEnv \in {"unset", "nocolumns", "ok"}
    /\ rosterOK \in BOOLEAN
    /\ pc = "import"
    /\ err = "none"
    /\ connected = FALSE
    /\ loggedIn = FALSE
    /\ genStarted = FALSE
    /\ mail_ids = <<>>
    /\ idx = 1
    /\ cur = NoneV
    /\ mail_info = NoneV
    /\ mails_info = <<>>
    /\ session = NoneV
    /\ backendCalls = <<>>
    /\ backendFailed = {}
    /\ sinkCalls = 0
    /\ sinkArg = NoneV
    /\ sinkError = FALSE
    /\ fetched = <<>>
    /\ closed = {}
    /\ yielded = <<>>
    /\ threadIds = {}
    /\ foreignIds = {}
    /\ noDateIds = {}
    /\ fn_in = NoneV
    /\ fn_out = NoneV

Abort(name) == pc' = "aborted" /\ err' = name

\* module level: load_dotenv, the OpenAI client, load_config and its 'prompt'
LoadModule ==
    /\ pc = "import"
    /\ IF configOK THEN pc' = "connect" /\ err' = err
       ELSE Abort("FileNotFoundError")
    /\ UNCHANGED <<configOK, questionEnv, rosterOK, connected, loggedIn,
                   genStarted, mail_ids, idx, cur, mail_info, mails_info,
                   session, backendCalls, backendFailed, sinkCalls, sinkArg,
                   sinkError, fetched, closed, yielded, threadIds, foreignIds,
                   noDateIds, fn_in, fn_out>>

\* connect_to_email: the host is reached or not, the login accepted or not
ConnectToEmail ==
    /\ pc = "connect"
    /\ \E reached \in BOOLEAN, accepted \in BOOLEAN :
          /\ connected' = reached
          /\ loggedIn' = (reached /\ accepted)
          /\ IF reached /\ accepted THEN pc' = "generator" /\ err' = err
             ELSE Abort(IF reached THEN "IMAP4.error" ELSE "OSError")
    /\ UNCHANGED <<configOK, questionEnv, rosterOK, genStarted, mail_ids, idx,
                   cur, mail_info, mails_info, session, backendCalls,
                   backendFailed, sinkCalls, sinkArg, sinkError, fetched,
                   closed, yielded, threadIds, foreignIds, noDateIds, fn_in,
                   fn_out>>

\* mails = extract_mail_info(mail, mails_file_path): a generator object is
\* made, none of its code runs
MakeGenerator ==
    /\ pc = "generator"
    /\ pc' = "question"
    /\ UNCHANGED <<configOK, questionEnv, rosterOK, err, connected, loggedIn,
                   genStarted, mail_ids, idx, cur, mail_info, mails_info,
                   session, backendCalls, backendFailed, sinkCalls, sinkArg,
                   sinkError, fetched, closed, yielded, threadIds, foreignIds,
                   noDateIds, fn_in, fn_out>>

\* question, session = fetch_question()
FetchQuestion ==
    /\ pc = "question"
    /\ IF questionEnv = "unset" THEN Abort("ValueError") /\ session' = session
       ELSE IF questionEnv = "nocolumns"
            THEN Abort("KeyError") /\ session' = session
       ELSE pc' = "next" /\ err' = err /\ session' = Some(SESSION)
    /\ UNCHANGED <<configOK, questionEnv, rosterOK, connected, loggedIn,
                   genStarted, mail_ids, idx, cur, mail_info, mails_info,
                   backendCalls, backendFailed, sinkCalls, sinkArg, sinkError,
                   fetched, closed, yielded, threadIds, foreignIds, noDateIds,
                   fn_in, fn_out>>

\* a variant that walks the ids oldest first
MailOrder_oldest(ids) == ids

\* for mail_id in reversed(mail_ids)
MailOrder(ids) == Reversed(ids)

CurrentId == MailOrder(mail_ids)[idx]

\* the first next() on the generators: select, search, the roster
StartGenerator ==
    /\ pc = "next"
    /\ ~genStarted
    /\ genStarted' = TRUE
    /\ \E status \in {"OK", "NO"}, n \in 0..MaxMail :
          IF status # "OK"
          THEN /\ mail_ids' = mail_ids
               /\ pc' = "insert"
               /\ err' = err
          ELSE /\ mail_ids' = [i \in 1..n |-> i]
               /\ IF rosterOK THEN pc' = "next" /\ err' = err
                  ELSE Abort("ValueError")
    /\ UNCHANGED <<configOK, questionEnv, rosterOK, connected, loggedIn, idx,
                   cur, mail_info, mails_info, session, backendCalls,
                   backendFailed, sinkCalls, sinkArg, sinkError, fetched,
                   closed, yielded, threadIds, foreignIds, noDateIds, fn_in,
                   fn_out>>

\* one turn of the loop over the ids whose FETCH does not answer OK
FetchFailed ==
    /\ pc = "next"
    /\ genStarted
    /\ idx <= Len(mail_ids)
    /\ fetched' = Append(fetched, CurrentId)
    /\ closed' = closed \cup {CurrentId}
    /\ idx' = idx + 1
    /\ UNCHANGED <<configOK, questionEnv, rosterOK, pc, err, connected,
                   loggedIn, genStarted, mail_ids, cur, mail_info, mails_info,
                   session, backendCalls, backendFailed, sinkCalls, sinkArg,
                   sinkError, yielded, threadIds, foreignIds, noDateIds,
                   fn_in, fn_out>>

\* what the claims call the sender of a message: the text that follows the
\* first "<" up to the next bracket when the header has both brackets, the
\* whole header otherwise, without surrounding whitespace
NormalizedSender(m) ==
    LET h == IF m.From.some THEN m.From.val ELSE <<>>
        open == FirstIndex(h, "<")
        rest == SubSeq(h, open + 1, Len(h))
        stops == {i \in 1..Len(rest) : rest[i] \in {"<", ">"}}
        stop == IF stops = {} THEN Len(rest) + 1
                ELSE CHOOSE i \in stops : \A j \in stops : i <= j
    IN  Strip(IF open > 0 /\ Contains(h, ">")
              THEN SubSeq(rest, 1, stop - 1) ELSE h)

HasThreadHeader(m) ==
    \/ m.InReplyTo.some /\ m.InReplyTo.val # ""
    \/ m.References.some /\ m.References.val # ""

HasNoDate(m) == ~m.Date.some \/ m.Date.val # VALID_DATE

\* one turn of the loop over the ids whose FETCH answers OK with one
\* message: it is yielded or dropped
FetchMail ==
    /\ pc = "next"
    /\ genStarted
    /\ idx <= Len(mail_ids)
    /\ \E mail_body \in Messages :
          /\ fetched' = Append(fetched, CurrentId)
          /\ threadIds' = IF HasThreadHeader(mail_body)
                          THEN threadIds \cup {CurrentId} ELSE threadIds
          /\ foreignIds' = IF NormalizedSender(mail_body) \notin Roster
                           THEN foreignIds \cup {CurrentId} ELSE foreignIds
          /\ noDateIds' = IF HasNoDate(mail_body)
                          THEN noDateIds \cup {CurrentId} ELSE noDateIds
          /\ IF SenderAllowed(mail_body, Roster)
             THEN /\ cur' = Some([mail_id |-> CurrentId, mail_body |-> mail_body])
                  /\ pc' = "extract"
                  /\ UNCHANGED <<idx, closed>>
             ELSE /\ closed' = closed \cup {CurrentId}
                  /\ idx' = idx + 1
                  /\ UNCHANGED <<cur, pc>>
    /\ UNCHANGED <<configOK, questionEnv, rosterOK, err, connected, loggedIn,
                   genStarted, mail_ids, mail_info, mails_info, session,
                   backendCalls, backendFailed, sinkCalls, sinkArg, sinkError,
                   yielded, fn_in, fn_out>>

\* the ids are used up: both generators end and so does the for loop
Exhausted ==
    /\ pc = "next"
    /\ genStarted
    /\ idx > Len(mail_ids)
    /\ pc' = "insert"
    /\ UNCHANGED <<configOK, questionEnv, rosterOK, err, connected, loggedIn,
                   genStarted, mail_ids, idx, cur, mail_info, mails_info,
                   session, backendCalls, backendFailed, sinkCalls, sinkArg,
                   sinkError, fetched, closed, yielded, threadIds, foreignIds,
                   noDateIds, fn_in, fn_out>>

\* the body of extract_mail_info's loop for the message it was handed
ExtractMailInfo ==
    /\ pc = "extract"
    /\ LET mail_id == cur.val.mail_id
           mail_body == cur.val.mail_body
           dt == DateAndTime(mail_body)
           time_text == Strftime(dt.time)
           date_text == JalaliIso(dt.date)
       IN  IF IsReplyOrForward(mail_body)
           THEN /\ pc' = "next"
                /\ idx' = idx + 1
                /\ closed' = closed \cup {mail_id}
                /\ UNCHANGED <<err, mail_info, yielded>>
           ELSE IF ~time_text.ok
           THEN /\ Abort(time_text.err)
                /\ UNCHANGED <<idx, closed, mail_info, yielded>>
           ELSE IF ~date_text.ok
           THEN /\ Abort(date_text.err)
                /\ UNCHANGED <<idx, closed, mail_info, yielded>>
           ELSE /\ mail_info' = Some(MailInfo(mail_id, mail_body,
                                              time_text.val, date_text.val))
                /\ yielded' = Append(yielded, mail_id)
                /\ pc' = "grade"
                /\ UNCHANGED <<err, idx, closed>>
    /\ cur' = NoneV
    /\ UNCHANGED <<configOK, questionEnv, rosterOK, connected, loggedIn,
                   genStarted, mail_ids, mails_info, session, backendCalls,
                   backendFailed, sinkCalls, sinkArg, sinkError, fetched,
                   threadIds, foreignIds, noDateIds, fn_in, fn_out>>

\* rate_to_question: the content without surrounding whitespace, or the
\* empty string when the call raises
RateToQuestion(outcome) ==
    IF outcome.ok THEN Strip(outcome.val) ELSE <<>>

\* a variant that grades every record
SubjectMatches_all(info, sess) == TRUE

\* mail_info['mail_subject'] == session
SubjectMatches(info, sess) == info.mail_subject = sess

\* the if statement of the main loop
GradeMail ==
    /\ pc = "grade"
    /\ LET info == mail_info.val
       IN  IF SubjectMatches(info, session.val)
           THEN \E outcome \in BackendOutcomes :
                   LET ai_answer == RateToQuestion(outcome)
                       grade == ParseGrade(ai_answer)
                   IN  /\ backendCalls' = Append(backendCalls, info.mail_id)
                       /\ backendFailed' = IF outcome.ok THEN backendFailed
                                           ELSE backendFailed \cup {info.mail_id}
                       /\ IF grade.ok
                          THEN /\ mail_info' =
                                    Some(info @@ [ai_answer |-> ai_answer,
                                                  grade |-> grade.val])
                               /\ pc' = "append"
                               /\ err' = err
                          ELSE /\ Abort(grade.err)
                               /\ mail_info' = mail_info
           ELSE /\ pc' = "append"
                /\ UNCHANGED <<err, mail_info, backendCalls, backendFailed>>
    /\ UNCHANGED <<configOK, questionEnv, rosterOK, connected, loggedIn,
                   genStarted, mail_ids, idx, cur, mails_info, session,
                   sinkCalls, sinkArg, sinkError, fetched, closed, yielded,
                   threadIds, foreignIds, noDateIds, fn_in, fn_out>>

\* a variant that appends inside the if branch
Appended_graded(list, info) ==
    IF "grade" \in DOMAIN info THEN Append(list, info) ELSE list

\* mails_info.append(mail_info)
Appended(list, info) == Append(list, info)

AppendMail ==
    /\ pc = "append"
    /\ mails_info' = Appended(mails_info, mail_info.val)
    /\ mail_info' = NoneV
    /\ closed' = closed \cup {mail_info.val.mail_id}
    /\ idx' = idx + 1
    /\ pc' = "next"
    /\ UNCHANGED <<configOK, questionEnv, rosterOK, err, connected, loggedIn,
                   genStarted, mail_ids, cur, session, backendCalls,
                   backendFailed, sinkCalls, sinkArg, sinkError, fetched,
                   yielded, threadIds, foreignIds, noDateIds, fn_in, fn_out>>

\* insert_into_mongo_db: the client and the collection are made without
\* talking to the store; insert_many raises on an empty list and when the
\* store fails; the except branch reports it
InsertIntoMongoDb ==
    /\ pc = "insert"
    /\ sinkCalls' = sinkCalls + 1
    /\ sinkArg' = Some(mails_info)
    /\ \E storeFails \in BOOLEAN :
          sinkError' = (storeFails \/ mails_info = <<>>)
    /\ pc' = "done"
    /\ UNCHANGED <<configOK, questionEnv, rosterOK, err, connected, loggedIn,
                   genStarted, mail_ids, idx, cur, mail_info, mails_info,
                   session, backendCalls, backendFailed, fetched, closed,
                   yielded, threadIds, foreignIds, noDateIds, fn_in, fn_out>>

Next ==
    \/ LoadModule
    \/ ConnectToEmail
    \/ MakeGenerator
    \/ FetchQuestion
    \/ StartGenerator
    \/ FetchFailed
    \/ FetchMail
    \/ Exhausted
    \/ ExtractMailInfo
    \/ GradeMail
    \/ AppendMail
    \/ InsertIntoMongoDb

Spec == Init /\ [][Next]_vars

(***************************************************************************)
(* Unit specifications: one function applied to every input of a bounded   *)
(* set.  The run's variables stay at their initial values.                 *)
(***************************************************************************)
UnitInit ==
    /\ configOK = TRUE
    /\ questionEnv = "ok"
    /\ rosterOK = TRUE
    /\ pc = "unit"
    /\ err = "none"
    /\ connected = FALSE
    /\ loggedIn = FALSE
    /\ genStarted = FALSE
    /\ mail_ids = <<>>
    /\ idx = 1
    /\ cur = NoneV
    /\ mail_info = NoneV
    /\ mails_info = <<>>
    /\ session = NoneV
    /\ backendCalls = <<>>
    /\ backendFailed = {}
    /\ sinkCalls = 0
    /\ sinkArg = NoneV
    /\ sinkError = FALSE
    /\ fetched = <<>>
    /\ closed = {}
    /\ yielded = <<>>
    /\ threadIds = {}
    /\ foreignIds = {}
    /\ noDateIds = {}
    /\ fn_out = NoneV

ReplyAlphabet == {"<", ">", ":", "8", ".", "g"}

InitGrade ==
    /\ UnitInit
    /\ fn_in \in {Some(r) : r \in SeqUpTo(ReplyAlphabet, MaxReplyLen)}

\* the grade expression applied to a reply
GradeReply ==
    /\ pc = "unit"
    /\ ~fn_out.some
    /\ fn_out' = Some(ParseGrade(fn_in.val))
    /\ UNCHANGED <<pipeVars, fn_in>>

SpecGrade == InitGrade /\ [][GradeReply]_vars

PartKinds ==
    {Part(disp, fname, PayloadOf(fname)) :
        disp \in {NoneV, Some(ATTACHMENT), Some(ATTACHMENT_CAP), Some(INLINE)},
        fname \in {NoneV, Some(A_PY), Some(B_TXT), Some(C_PY_UPPER),
                   Some(ATTACHMENT_PY)}}

InitAttach ==
    /\ UnitInit
    /\ fn_in \in {Some(ps) : ps \in SeqUpTo(PartKinds, MaxParts)}

\* the two walks extract_mail_info makes over the parts of a message
ScanParts ==
    /\ pc = "unit"
    /\ ~fn_out.some
    /\ fn_out' = Some([py_content |-> GetAllMailPyAttachedContent(fn_in.val),
                       py_files |-> CountPyAttachments(fn_in.val)])
    /\ UNCHANGED <<pipeVars, fn_in>>

SpecAttach == InitAttach /\ [][ScanParts]_vars

(***************************************************************************)
(* Properties.                                                             *)
(***************************************************************************)
Range(f) == {f[i] : i \in DOMAIN f}

\* the records that exist: the one in the loop body, the list, the sink's
AllRecords ==
    (IF mail_info.some THEN {mail_info.val} ELSE {})
        \cup Range(mails_info)
        \cup (IF sinkArg.some THEN Range(sinkArg.val) ELSE {})

HasRecord(id) == id \in Range(yielded) \/ \E r \in AllRecords : r.mail_id = id

\* C1: a fetched message with a non-empty In-Reply-To or References header
\* never has a record: none is yielded, listed or handed to the sink.
C1_NoRecordForReply == \A id \in threadIds : ~HasRecord(id)

\* a finished run that fetched a reply from a roster sender and handed a
\* record of another message to the sink
C1_Witness ==
    /\ pc = "done"
    /\ threadIds \ foreignIds # {}
    /\ sinkArg.val # <<>>

\* C2: a fetched message whose normalized sender is not on the roster is
\* not yielded and never has a record.
C2_NoRecordForForeignSender ==
    \A id \in foreignIds :
        /\ ~HasRecord(id)
        /\ ~(cur.some /\ cur.val.mail_id = id)

\* a finished run that fetched a message from a sender outside the roster
\* and handed a record of another message to the sink
C2_Witness ==
    /\ pc = "done"
    /\ foreignIds # {}
    /\ sinkArg.val # <<>>

\* the extraction loop is through with the fetched message id
Extracted(id) ==
    /\ id \in Range(fetched)
    /\ ~(cur.some /\ cur.val.mail_id = id)

\* C3: a message from a roster sender without reply headers whose Date is
\* absent or unparseable still gets a record with empty date and time, and
\* the run is not aborted.
C3_RecordDespiteBadDate ==
    \A id \in noDateIds \ (foreignIds \cup threadIds) :
        Extracted(id) =>
            /\ id \in Range(yielded)
            /\ err = "none"
            /\ \A r \in AllRecords :
                  r.mail_id = id => r.mail_date = "" /\ r.mail_time = ""

\* C4: when the chat completion raises for a record of the session, the
\* reply is empty, nothing is raised and the run goes on to the next
\* message and to the sink.
C4_BatchContinuesAfterBackendFailure ==
    \A id \in backendFailed :
        /\ pc # "aborted"
        /\ \A r \in AllRecords :
              r.mail_id = id /\ "ai_answer" \in DOMAIN r => r.ai_answer = <<>>

\* C5: when QUESTION_FILE_PATH is not set, no connection to the mailbox is
\* opened and no login happens in the run.
C5_NoMailboxIoWithoutConfig ==
    questionEnv = "unset" => ~connected /\ ~loggedIn

RecordIds(list) == [i \in DOMAIN list |-> list[i].mail_id]

\* C6: insert_many is called at most once, only when every id of the search
\* has been handled; a run that gets to the sink calls it exactly once with
\* the records of all yielded messages, one each, in order; its error is
\* caught and the run ends without an exception.
C6_SinkOnceWithAllRecords ==
    /\ sinkCalls <= 1
    /\ sinkCalls = 1 =>
          /\ pc = "done"
          /\ closed = Range(mail_ids)
          /\ ~cur.some /\ ~mail_info.some
    /\ pc = "done" =>
          /\ sinkCalls = 1
          /\ err = "none"
          /\ sinkArg.some
          /\ RecordIds(sinkArg.val) = yielded
          /\ \A i, j \in DOMAIN yielded : yielded[i] = yielded[j] => i = j
    /\ sinkError => pc = "done" /\ err = "none"

Graded(r) == "grade" \in DOMAIN r
Replied(r) == "ai_answer" \in DOMAIN r

\* a finished run whose insert_many raised, called with a graded and an
\* ungraded record
C6_Witness ==
    /\ pc = "done"
    /\ sinkError
    /\ \E r \in Range(sinkArg.val) : Graded(r)
    /\ \E r \in Range(sinkArg.val) : ~Graded(r)

\* C7: in the list built for the sink a record has a reply exactly when its
\* subject equals the session, it has a grade exactly when it has a reply,
\* and no chat completion was requested for a record of another subject.
C7_GradedIffSession ==
    \A r \in Range(mails_info) \cup (IF sinkArg.some THEN Range(sinkArg.val) ELSE {}) :
        /\ Replied(r) <=> r.mail_subject = SESSION
        /\ Graded(r) <=> Replied(r)
        /\ r.mail_subject # SESSION => r.mail_id \notin Range(backendCalls)

\* the sink received a graded record of the session and an ungraded record
\* of another subject
C7_Witness ==
    /\ pc = "done"
    /\ \E r \in Range(sinkArg.val) : r.mail_subject = SESSION /\ Graded(r)
    /\ \E r \in Range(sinkArg.val) : r.mail_subject # SESSION /\ ~Graded(r)

\* the disposition type of the part is "attachment", in any case
DispositionIsAttachment(part) ==
    part.disp.some /\ Lower(part.disp.val) = ATTACHMENT

PyAttachmentPart(part) ==
    /\ DispositionIsAttachment(part)
    /\ part.fname.some
    /\ EndsWith(Lower(part.fname.val), DOT_PY)

\* the blocks of parts[i..], each followed by what joins it to the next
RECURSIVE BlocksFrom(_, _)
BlocksFrom(parts, i) ==
    IF i > Len(parts) THEN <<>>
    ELSE IF ~PyAttachmentPart(parts[i]) THEN BlocksFrom(parts, i + 1)
    ELSE LET rest == BlocksFrom(parts, i + 1)
         IN  FILE_MARK_HEAD \o parts[i].fname.val \o FILE_MARK_TAIL
                 \o Strip(DecodePayload(parts[i].payload))
                 \o (IF rest = <<>> THEN <<>> ELSE BLANK_LINE \o rest)

\* C8: the count is the number of parts with attachment disposition and a
\* filename ending in .py in any case, and the text is one marked block per
\* such part, in part order, joined by a blank line; with no such part the
\* count is 0 and the text is empty.
C8_CountAndTextOfPyAttachments ==
    fn_out.some =>
        /\ fn_out.val.py_files =
              Cardinality({i \in DOMAIN fn_in.val : PyAttachmentPart(fn_in.val[i])})
        /\ fn_out.val.py_content = BlocksFrom(fn_in.val, 1)

\* the text between the first "<" and the first ">" that follows it
Marker(reply) ==
    LET open == FirstIndex(reply, "<")
        rest == SubSeq(reply, open + 1, Len(reply))
        close == FirstIndex(rest, ">")
    IN  IF open = 0 \/ close = 0 THEN NoneV
        ELSE Some(SubSeq(rest, 1, close - 1))

\* the number of the marker: the second ":"-separated token, when the reply
\* has a marker with two tokens and the second is a number
MarkerNumber(reply) ==
    LET m == Marker(reply)
    IN  IF ~m.some THEN NoneV
        ELSE IF Len(Split(m.val, ":")) < 2 THEN NoneV
        ELSE IF ~Float(Split(m.val, ":")[2]).ok THEN NoneV
        ELSE Some(Float(Split(m.val, ":")[2]).val)

\* C9: the grade is the number of the second ":"-separated token between
\* the first pair of angle brackets, and the expression raises for every
\* reply whose marker is absent, malformed or without a parseable number.
C9_GradeFromMarkerOrError ==
    fn_out.some =>
        IF MarkerNumber(fn_in.val).some
        THEN fn_out.val.ok /\ fn_out.val.val = MarkerNumber(fn_in.val).val
        ELSE ~fn_out.val.ok

\* C10: the ids are fetched newest first, and when an id is fetched every
\* id fetched before it is through: dropped, or extracted, graded when its
\* subject is the session's, and appended to the list.
C10_NewestFirstOneAtATime ==
    /\ \A i \in DOMAIN fetched : fetched[i] = Len(mail_ids) + 1 - i
    /\ \A i \in DOMAIN fetched :
          i < Len(fetched) =>
              /\ fetched[i] \in closed
              /\ fetched[i] \in Range(yielded) =>
                    \E r \in Range(mails_info) :
                        /\ r.mail_id = fetched[i]
                        /\ r.mail_subject = SESSION => Graded(r)
    /\ Cardinality(Range(fetched) \ closed) <= 1
    /\ ~(cur.some /\ mail_info.some)

\* the second message is fetched after the first was graded and appended
C10_Witness ==
    /\ Len(fetched) = 2
    /\ pc = "extract"
    /\ \E r \in Range(mails_info) : r.mail_id = fetched[1] /\ Graded(r)

====
